---- MODULE Spec2Model ----
(***************************************************************************)
(* The post-training quantization driver of quantize.py (main), as a       *)
(* state machine: flag parsing and validation, model selection, the        *)
(* parameter quantization pass over the model's state_dict, the activation *)
(* quantization wrapper with its calibration evaluation, the final         *)
(* evaluation and the report.                                              *)
(*                                                                         *)
(* The quantizer library (utee.quant) and the evaluator (utee.misc) are    *)
(* called by the driver but are not part of the source at hand; they are   *)
(* modelled from the design document.  A tensor produced by a quantizer is *)
(* kept as the application that produced it (scheme, bit-width, scale      *)
(* factor, argument), which is what the driver decides.                    *)
(***************************************************************************)
EXTENDS Integers, Sequences, FiniteSets, TLC

(* ---------------------------- bounds ----------------------------------- *)
\* longest parameter map the model selector returns
MaxEntries == 2
\* largest calibration budget (--n_sample)
MaxSample == 2
\* most forward calls one evaluation makes
MaxCalls == 2
\* number of leaf computation units of the model
NumUnits == 2
\* largest integer-bit count the range estimator returns
MaxIntBits == 3

(* ------------------------ program constants ---------------------------- *)
\* bit-widths at or above this are not quantized
NoQuantBits == 32

\* the four scheme names accepted by the driver
KnownMethods == <<"linear", "minmax", "log", "tanh">>

(* ------------------------------ inputs --------------------------------- *)
MethodInputs == {"linear", "minmax", "log", "tanh", "kmeans"}
ParamBitsInputs == {0, 4, 32}
BnBitsInputs == {0, 8, 32}
FwdBitsInputs == {0, 8, 32}
\* overflow rates in percent; 150 lies outside [0,1]
RateInputs == {0, 50, 150}
ParamNames == {"conv.weight", "bn.running_mean", "fc.bias"}
\* the tensors the model's parameters and layer outputs take; an element list
\* stands for a float tensor, of which the range estimator reads the magnitudes
TensorOf(k) ==
    CASE k = "conv.weight" -> <<1, -3>>
      [] k = "bn.running_mean" -> <<4, 1>>
      [] OTHER -> <<2, 0>>
OutputTensors == {<<1, 2, -1>>, <<5, 1>>}
Units == 1..NumUnits

VARIABLES
    pc,               \* position of main()
    args,             \* the parsed flags
    keys,             \* names of the model's parameters, in state_dict order
    params,           \* the model's tensor storage, by name
    loaded,           \* selector.select has returned the model
    state_dict,       \* the map read at the start of the pass (names; values alias params)
    orig,             \* the tensor values seen when state_dict was read
    state_dict_quant, \* the map built by the pass
    idx,              \* position of the loop over state_dict.items()
    log,              \* what the parameter pass printed
    wrapped,          \* the model has been wrapped for activation quantization
    counter,          \* per unit: remaining calibration calls
    est,              \* per unit: accumulated integer-bit estimate
    calls,            \* per unit: forward invocations so far
    updates,          \* per unit: calibration updates so far
    frozenOut,        \* per unit: (output tensor, result) pairs of calls made while frozen
    warned,           \* the wrapper flagged a degenerate calibration budget
    ev                \* the evaluation in progress and the evaluations made

vars == <<pc, args, keys, params, loaded, state_dict, orig, state_dict_quant, idx,
          log, wrapped, counter, est, calls, updates, frozenOut, warned, ev>>

paramVars == <<state_dict, orig, state_dict_quant, idx, log>>
unitVars == <<wrapped, counter, est, calls, updates, frozenOut, warned>>

(* ----------------------------- helpers --------------------------------- *)
Abs(n) == IF n < 0 THEN -n ELSE n

RECURSIVE Pow2(_)
Pow2(n) == IF n <= 0 THEN 1 ELSE 2 * Pow2(n - 1)

Max(a, b) == IF a >= b THEN a ELSE b

InSeq(s, x) == \E i \in 1..Len(s) : s[i] = x

\* Python's `sub in s` on strings
Contains(s, sub) ==
    \E i \in 1..(Len(s) - Len(sub) + 1) : SubSeq(s, i, i + Len(sub) - 1) = sub

Distinct(s) == \A i, j \in 1..Len(s) : i # j => s[i] # s[j]

\* sequences of distinct names, at most n long
RECURSIVE DistinctSeqs(_, _)
DistinctSeqs(S, n) ==
    IF n = 0 THEN {<<>>}
    ELSE LET shorter == DistinctSeqs(S, n - 1)
             longer == {Append(s, x) : s \in shorter, x \in S}
         IN shorter \cup {t \in longer : Distinct(t)}

(* ------------------------------ tensors -------------------------------- *)
\* a tensor as torch holds it: either plain data or the result of a quantizer
\* call, a new tensor that is kept apart from its argument
Raw(d) == [op |-> "raw", bits |-> 0, sf |-> 0, data |-> d]
Quantized(op, d, sf, bits) == [op |-> op, bits |-> bits, sf |-> sf, data |-> d]

(* ------------------- range estimator (utee.quant) ---------------------- *)
\* number of elements whose magnitude exceeds 2^b
Exceeding(d, b) == Cardinality({i \in 1..Len(d) : Abs(d[i]) > Pow2(b)})

\* the fraction of elements exceeding 2^b is at most r percent
Fits(d, r, b) == 100 * Exceeding(d, b) <= r * Len(d)

\* the minimal integer-bit count meeting the overflow tolerance; 0 for an all-zero tensor
IntegralPart(d, r) ==
    IF \E b \in 0..MaxIntBits : Fits(d, r, b)
    THEN CHOOSE b \in 0..MaxIntBits :
            Fits(d, r, b) /\ \A c \in 0..(b - 1) : ~Fits(d, r, c)
    ELSE MaxIntBits

\* the rate must lie in [0,1]; the estimator rejects any other (configuration error)
RateInRange(r) == r >= 0 /\ r <= 100

\* what compute_integral_part returns for a rate it accepts
compute_integral_part(v, r) == IntegralPart(v.data, r)

(* ------------------- quantizer library (utee.quant) -------------------- *)
\* every scheme rejects a bit-width below one
BitsRejected(bits) == bits < 1

linear_quantize(v, sf, bits) == Quantized("linear", v.data, sf, bits)
min_max_quantize(v, bits) == Quantized("minmax", v.data, 0, bits)
log_minmax_quantize(v, bits) == Quantized("log", v.data, 0, bits)
tanh_quantize(v, bits) == Quantized("tanh", v.data, 0, bits)

(* -------------------------- driver: parameters ------------------------- *)
\* `'running' in k`
IsRunning(k) == Contains(k, "running")

\* the flag check of main()
MethodAccepted(m) == InSeq(KnownMethods, m)

\* the parameter pass runs at all
PassRuns(a) == a.param_bits < NoQuantBits

\* the entry is copied, not quantized
Bypassed(k, a) == IsRunning(k) /\ a.bn_bits >= NoQuantBits

\* the bit-width chosen for an entry that is quantized
EntryBits(k, a) == IF IsRunning(k) THEN a.bn_bits ELSE a.param_bits

\* scale factor of the linear scheme
ScaleFactor(bits, ib) == bits - 1 - ib

\* the scheme dispatch of the pass
Dispatch_LogFallsThrough(method, v, bits, ib) ==
    IF method = "linear" THEN linear_quantize(v, ScaleFactor(bits, ib), bits)
    ELSE IF method = "minmax" THEN min_max_quantize(v, bits)
    ELSE tanh_quantize(v, bits)
Dispatch(method, v, bits, ib) ==
    IF method = "linear" THEN linear_quantize(v, ScaleFactor(bits, ib), bits)
    ELSE IF method = "log" THEN log_minmax_quantize(v, bits)
    ELSE IF method = "minmax" THEN min_max_quantize(v, bits)
    ELSE tanh_quantize(v, bits)

\* OrderedDict item assignment: a new key goes last, a known key keeps its place
Put(d, e) ==
    IF \E i \in 1..Len(d) : d[i].k = e.k
    THEN [i \in 1..Len(d) |-> IF d[i].k = e.k THEN e ELSE d[i]]
    ELSE Append(d, e)

KeysOf(d) == [i \in 1..Len(d) |-> d[i].k]

\* an entry holding the very tensor of the model (v is not copied by assignment)
Alias(k) == [k |-> k, alias |-> TRUE, v |-> Raw(<<>>)]
Fresh(k, v) == [k |-> k, alias |-> FALSE, v |-> v]

\* the tensor an entry of the quantized map holds now
ValueOf(e) == IF e.alias THEN params[e.k] ELSE e.v

\* what the bypass branch writes
BypassWrite_Forgotten(d, k) == d
BypassWrite(d, k) == Put(d, Alias(k))

\* what the quantizing branch writes
QuantWrite(d, k, vq) == Put(d, Fresh(k, vq))

\* the model's storage after an entry was quantized: v_quant is a new tensor, v is left alone
PassStorage_InPlace(p, k, vq) == [p EXCEPT ![k] = vq]
PassStorage(p, k, vq) == p

Ignoring(k) == [kind |-> "ignoring", k |-> k, bits |-> 0]
Printed(k, bits) == [kind |-> "quantized", k |-> k, bits |-> bits]

(* ------------------------------- Init ---------------------------------- *)
NoEval == [kind |-> "none", left |-> 0, unit |-> 1, limit |-> 0, made |-> 0,
           calib |-> 0, final |-> 0]

\* The flags are taken from two families of runs, to keep the parameter stage
\* and the activation stage from multiplying each other's inputs.
\* runs that vary the parameter map and the parameter bit-widths
ParamRuns ==
    [quant_method : MethodInputs, param_bits : ParamBitsInputs,
     bn_bits : BnBitsInputs, fwd_bits : {32}, n_sample : {1},
     overflow_rate : RateInputs]

\* runs that vary the activation bit-width and the calibration budget
ActivationRuns ==
    [quant_method : MethodInputs, param_bits : {4, 32},
     bn_bits : {8}, fwd_bits : FwdBitsInputs, n_sample : 0..MaxSample,
     overflow_rate : RateInputs]

ActivationRunKeys == <<"bn.running_mean", "conv.weight">>

Init ==
    /\ pc = "parse"
    /\ \/ /\ args \in ParamRuns
          /\ keys \in DistinctSeqs(ParamNames, MaxEntries)
       \/ /\ args \in ActivationRuns
          /\ keys = ActivationRunKeys
    /\ params = [k \in {keys[i] : i \in 1..Len(keys)} |-> Raw(TensorOf(k))]
    /\ loaded = FALSE
    /\ state_dict = <<>>
    /\ orig = params
    /\ state_dict_quant = <<>>
    /\ idx = 0
    /\ log = <<>>
    /\ wrapped = FALSE
    /\ counter = [u \in Units |-> 0]
    /\ est = [u \in Units |-> 0]
    /\ calls = [u \in Units |-> 0]
    /\ updates = [u \in Units |-> 0]
    /\ frozenOut = [u \in Units |-> {}]
    /\ warned = FALSE
    /\ ev = NoEval

(* ----------------------- driver: start of main ------------------------- *)
\* parse_args and the assert on quant_method
ParseFlags ==
    /\ pc = "parse"
    /\ pc' = IF MethodAccepted(args.quant_method) THEN "device" ELSE "failed"
    /\ UNCHANGED <<args, keys, params, loaded, paramVars, unitVars, ev>>

\* assert torch.cuda.is_available(): the device is there
DeviceFound ==
    /\ pc = "device"
    /\ pc' = "select"
    /\ UNCHANGED <<args, keys, params, loaded, paramVars, unitVars, ev>>

\* assert torch.cuda.is_available(): no device
DeviceMissing ==
    /\ pc = "device"
    /\ pc' = "failed"
    /\ UNCHANGED <<args, keys, params, loaded, paramVars, unitVars, ev>>

\* selector.select
SelectModel ==
    /\ pc = "select"
    /\ loaded' = TRUE
    /\ pc' = "params"
    /\ UNCHANGED <<args, keys, params, paramVars, unitVars, ev>>

(* --------------------- driver: the parameter pass ---------------------- *)
\* state_dict = model_raw.state_dict(); state_dict_quant = OrderedDict()
ReadStateDict ==
    /\ pc = "params"
    /\ PassRuns(args)
    /\ state_dict' = keys
    /\ orig' = params
    /\ state_dict_quant' = <<>>
    /\ idx' = 1
    /\ pc' = "loop"
    /\ UNCHANGED <<args, keys, params, loaded, log, unitVars, ev>>

\* param_bits >= 32: the pass is skipped as a whole
SkipPass ==
    /\ pc = "params"
    /\ ~PassRuns(args)
    /\ pc' = "fwd"
    /\ UNCHANGED <<args, keys, params, loaded, paramVars, unitVars, ev>>

\* one iteration taking the bypass branch
IgnoreEntry ==
    /\ pc = "loop"
    /\ idx <= Len(state_dict)
    /\ LET k == state_dict[idx] IN
        /\ Bypassed(k, args)
        /\ log' = Append(log, Ignoring(k))
        /\ state_dict_quant' = BypassWrite(state_dict_quant, k)
    /\ idx' = idx + 1
    /\ UNCHANGED <<pc, args, keys, params, loaded, state_dict, orig, unitVars, ev>>

\* one iteration quantizing the entry
QuantizeEntry ==
    /\ pc = "loop"
    /\ idx <= Len(state_dict)
    /\ LET k == state_dict[idx]
           v == params[k]
           bits == EntryBits(k, args)
       IN
        /\ ~Bypassed(k, args)
        /\ ~BitsRejected(bits)
        /\ args.quant_method = "linear" => RateInRange(args.overflow_rate)
        /\ LET vq == Dispatch(args.quant_method, v, bits,
                              compute_integral_part(v, args.overflow_rate))
           IN /\ state_dict_quant' = QuantWrite(state_dict_quant, k, vq)
              /\ params' = PassStorage(params, k, vq)
        /\ log' = Append(log, Printed(k, bits))
    /\ idx' = idx + 1
    /\ UNCHANGED <<pc, args, keys, loaded, state_dict, orig, unitVars, ev>>

\* one iteration in which the library raises: a bit-width below one, or
\* (linear scheme) an overflow rate outside the estimator's precondition
QuantizeEntryRaises ==
    /\ pc = "loop"
    /\ idx <= Len(state_dict)
    /\ LET k == state_dict[idx] IN
        /\ ~Bypassed(k, args)
        /\ \/ BitsRejected(EntryBits(k, args))
           \/ args.quant_method = "linear" /\ ~RateInRange(args.overflow_rate)
    /\ pc' = "failed"
    /\ UNCHANGED <<args, keys, params, loaded, paramVars, unitVars, ev>>

\* the tensors load_state_dict copies into the model, by name
Loaded(d) ==
    [k \in DOMAIN params |->
        IF \E i \in 1..Len(d) : d[i].k = k
        THEN ValueOf(d[CHOOSE i \in 1..Len(d) : d[i].k = k])
        ELSE params[k]]

\* load_state_dict is strict: the names must be the model's own
NamesMatch(d) == {d[i].k : i \in 1..Len(d)} = DOMAIN params

\* model_raw.load_state_dict(state_dict_quant)
LoadStateDict ==
    /\ pc = "loop"
    /\ idx > Len(state_dict)
    /\ IF NamesMatch(state_dict_quant)
       THEN params' = Loaded(state_dict_quant) /\ pc' = "fwd"
       ELSE params' = params /\ pc' = "failed"
    /\ UNCHANGED <<args, keys, loaded, paramVars, unitVars, ev>>

(* --------------- activation quantization wrapper (utee.quant) ---------- *)
\* the estimate a unit holds before any calibration call
DefaultEstimate == 0

\* running-maximum blend of the range estimate
Blend(e, ib) == Max(e, ib)

\* the quantization a unit applies to its output with estimate e
UnitQuantize(method, v, bits, e) ==
    IF method = "linear" THEN linear_quantize(v, bits - 1 - e, bits)
    ELSE IF method = "log" THEN log_minmax_quantize(v, bits)
    ELSE IF method = "minmax" THEN min_max_quantize(v, bits)
    ELSE tanh_quantize(v, bits)

\* wrapping gives every leaf unit the budget and the default estimate
WrappedCounters(c) == [u \in Units |-> c]
WrappedEstimates == [u \in Units |-> DefaultEstimate]

\* a budget of zero is flagged to the caller as a warning, not raised
BudgetWarning(c) == c = 0

\* a unit with no calibration call left
Frozen(u) == wrapped /\ counter[u] = 0
Calibrating(u) == wrapped /\ counter[u] > 0

(* ------------------- driver: activations and evaluation ---------------- *)
\* the model is wrapped at all
WrapRuns(a) == a.fwd_bits < NoQuantBits

\* counter=args.n_sample
WrapCounter_OneMore(a) == a.n_sample + 1
WrapCounter_AtLeastOne(a) == Max(a.n_sample, 1)
WrapCounter(a) == a.n_sample

\* n_sample=args.n_sample of the calibration call of eval_model
CalibSampleLimit_OneLess(a) == Max(a.n_sample - 1, 0)
CalibSampleLimit(a) == a.n_sample

\* quant.duplicate_model_with_quant
Wrap ==
    /\ pc = "fwd"
    /\ WrapRuns(args)
    /\ wrapped' = TRUE
    /\ counter' = WrappedCounters(WrapCounter(args))
    /\ est' = WrappedEstimates
    /\ warned' = BudgetWarning(WrapCounter(args))
    /\ pc' = "calib"
    /\ UNCHANGED <<args, keys, params, loaded, paramVars, calls, updates, frozenOut, ev>>

\* fwd_bits >= 32: the model is left as it is
SkipWrap ==
    /\ pc = "fwd"
    /\ ~WrapRuns(args)
    /\ pc' = "final"
    /\ UNCHANGED <<args, keys, params, loaded, paramVars, unitVars, ev>>

\* misc.eval_model(model_raw, val_ds_tmp, ngpu=1, n_sample=args.n_sample, ...):
\* the evaluator decides how many forward calls it makes
StartCalibration ==
    /\ pc = "calib"
    /\ \E n \in 0..MaxCalls :
          ev' = [ev EXCEPT !.kind = "calib", !.left = n, !.unit = 1,
                           !.limit = CalibSampleLimit(args), !.made = 0,
                           !.calib = @ + 1]
    /\ pc' = "calib_run"
    /\ UNCHANGED <<args, keys, params, loaded, paramVars, unitVars>>

\* misc.eval_model(model_raw, val_ds, ngpu=args.ngpu, ...) over the whole dataset
StartFinal ==
    /\ pc = "final"
    /\ \E n \in 1..MaxCalls :
          ev' = [ev EXCEPT !.kind = "final", !.left = n, !.unit = 1, !.final = @ + 1]
    /\ pc' = "final_run"
    /\ UNCHANGED <<args, keys, params, loaded, paramVars, unitVars>>

Running == pc \in {"calib_run", "final_run"} /\ ev.left > 0

\* the evaluation moves on to the next unit, or to the next forward call
Advance(e) ==
    IF e.unit = NumUnits
    THEN [e EXCEPT !.unit = 1, !.left = @ - 1,
                   !.made = IF e.kind = "calib" THEN @ + 1 ELSE @]
    ELSE [e EXCEPT !.unit = @ + 1]

\* a forward call of the model that was not wrapped
ForwardPlain ==
    /\ Running
    /\ ~wrapped
    /\ ev' = [ev EXCEPT !.left = @ - 1]
    /\ UNCHANGED <<pc, args, keys, params, loaded, paramVars, unitVars>>

\* a wrapped unit invoked while calibrating
ForwardCalibrating ==
    /\ Running
    /\ Calibrating(ev.unit)
    /\ ~BitsRejected(args.fwd_bits)
    /\ RateInRange(args.overflow_rate)
    /\ LET u == ev.unit IN
       \E t \in OutputTensors :
          /\ est' = [est EXCEPT ![u] =
                        Blend(@, compute_integral_part(Raw(t), args.overflow_rate))]
          /\ counter' = [counter EXCEPT ![u] = @ - 1]
          /\ updates' = [updates EXCEPT ![u] = @ + 1]
          /\ calls' = [calls EXCEPT ![u] = @ + 1]
    /\ ev' = Advance(ev)
    /\ UNCHANGED <<pc, args, keys, params, loaded, paramVars, wrapped, frozenOut, warned>>

\* a wrapped unit invoked once frozen
ForwardFrozen ==
    /\ Running
    /\ Frozen(ev.unit)
    /\ ~BitsRejected(args.fwd_bits)
    /\ LET u == ev.unit IN
       \E t \in OutputTensors :
          /\ frozenOut' = [frozenOut EXCEPT ![u] = @ \cup
                {<<t, UnitQuantize(args.quant_method, Raw(t), args.fwd_bits, est[u])>>}]
          /\ calls' = [calls EXCEPT ![u] = @ + 1]
    /\ ev' = Advance(ev)
    /\ UNCHANGED <<pc, args, keys, params, loaded, paramVars, wrapped, counter, est,
                   updates, warned>>

\* a wrapped unit whose quantizer or estimator raises
ForwardRaises ==
    /\ Running
    /\ wrapped
    /\ \/ BitsRejected(args.fwd_bits)
       \/ Calibrating(ev.unit) /\ ~RateInRange(args.overflow_rate)
    /\ pc' = "failed"
    /\ UNCHANGED <<args, keys, params, loaded, paramVars, unitVars, ev>>

\* the calibration call of eval_model returns
EndCalibration ==
    /\ pc = "calib_run"
    /\ ev.left = 0
    /\ ev' = [ev EXCEPT !.kind = "none"]
    /\ pc' = "final"
    /\ UNCHANGED <<args, keys, params, loaded, paramVars, unitVars>>

\* the final call of eval_model returns acc1, acc5
EndFinal ==
    /\ pc = "final_run"
    /\ ev.left = 0
    /\ ev' = [ev EXCEPT !.kind = "none"]
    /\ pc' = "report"
    /\ UNCHANGED <<args, keys, params, loaded, paramVars, unitVars>>

\* res_dict, the snapshot and the line appended to acc1_acc5.txt
Report ==
    /\ pc = "report"
    /\ pc' = "done"
    /\ UNCHANGED <<args, keys, params, loaded, paramVars, unitVars, ev>>

Next ==
    \/ ParseFlags
    \/ DeviceFound
    \/ DeviceMissing
    \/ SelectModel
    \/ ReadStateDict
    \/ SkipPass
    \/ IgnoreEntry
    \/ QuantizeEntry
    \/ QuantizeEntryRaises
    \/ LoadStateDict
    \/ Wrap
    \/ SkipWrap
    \/ StartCalibration
    \/ StartFinal
    \/ ForwardPlain
    \/ ForwardCalibrating
    \/ ForwardFrozen
    \/ ForwardRaises
    \/ EndCalibration
    \/ EndFinal
    \/ Report

Spec == Init /\ [][Next]_vars

(* ------------------------------ properties ----------------------------- *)
\* positions of main() after the parameter stage
AfterPass == {"fwd", "calib", "calib_run", "final", "final_run", "report", "done"}

\* positions of main() from the final evaluation on
FinalStages == {"final", "final_run", "report", "done"}

\* the tensor the model provider gave the entry
InitialTensor(k) == Raw(TensorOf(k))

\* the bit-width configured for the entry's class
ClassBits(k) == IF IsRunning(k) THEN args.bn_bits ELSE args.param_bits

\* a configuration the design document calls erroneous
ConfigError(a) ==
    \/ a.quant_method \notin {"linear", "minmax", "log", "tanh"}
    \/ a.param_bits <= 0
    \/ a.bn_bits <= 0
    \/ a.fwd_bits <= 0
    \/ a.overflow_rate < 0
    \/ a.overflow_rate > 100

\* C1: whenever the parameter pass runs, the names written to the quantized map
\* so far are exactly the names visited so far, in order (bypass iterations
\* included), and once the pass is over the quantized map has the names of the
\* original map, in the same order, none added, removed or duplicated.
C1_NamesPreserved ==
    /\ pc = "loop" => KeysOf(state_dict_quant) = SubSeq(state_dict, 1, idx - 1)
    /\ (pc \in AfterPass /\ args.param_bits < 32) =>
          /\ KeysOf(state_dict_quant) = state_dict
          /\ state_dict = keys
          /\ Distinct(KeysOf(state_dict_quant))

C1_Witness ==
    /\ pc = "fwd"
    /\ Len(state_dict) >= 2
    /\ \E i \in 1..Len(state_dict_quant) : state_dict_quant[i].alias
    /\ \E i \in 1..Len(state_dict_quant) : ~state_dict_quant[i].alias

\* C2: the bit-width applied to an entry is decided by its class alone: once
\* the parameter stage is over, every running-statistic entry whose bn_bits is
\* below 32 is quantized at bn_bits and every other entry whose param_bits is
\* below 32 is quantized at param_bits, whatever the other bit-width is
\* (stated for the runs with a valid configuration).
C2_ClassAloneDecidesBits ==
    (pc \in AfterPass /\ ~ConfigError(args)) =>
        \A k \in DOMAIN params :
            ClassBits(k) < 32 =>
                params[k].op # "raw" /\ params[k].bits = ClassBits(k)

\* C3: an entry whose class bit-width is >= 32 ends up unchanged and a log
\* event names it; no entry is left unquantized without such an event
\* (stated for the runs with a valid configuration).
C3_BypassIsLogged ==
    (pc \in AfterPass /\ ~ConfigError(args)) =>
        \A k \in DOMAIN params :
            /\ ClassBits(k) >= 32 =>
                  /\ params[k] = InitialTensor(k)
                  /\ \E i \in 1..Len(log) : log[i].kind = "ignoring" /\ log[i].k = k
            /\ params[k] = InitialTensor(k) =>
                  \E i \in 1..Len(log) : log[i].kind = "ignoring" /\ log[i].k = k

\* C4 as claimed: from the moment the original map is read until the driver is
\* done with the result, loading it back into the model included, every tensor
\* reachable through the original map is as it was when the map was read
\* (stated for the runs with a valid configuration).
C4_InputMapNeverMutated ==
    (pc \in {"loop"} \cup AfterPass /\ args.param_bits < 32 /\ ~ConfigError(args)) =>
        \A i \in 1..Len(state_dict) : params[state_dict[i]] = orig[state_dict[i]]

\* C4 as amended: while the pass builds the quantized map (up to the call of
\* load_state_dict) every tensor reachable through the original map is as it
\* was read, so each before/after comparison sees the original values; the
\* load then leaves in the model, and so in the original map that shares its
\* tensors, the quantized tensor of every quantized entry and the original
\* tensor of every bypassed one.
C4_InputUntouchedUntilLoad ==
    /\ pc = "loop" => \A k \in DOMAIN params : params[k] = orig[k]
    /\ (pc \in AfterPass /\ args.param_bits < 32) =>
          \A i \in 1..Len(state_dict_quant) :
              LET e == state_dict_quant[i] IN
              params[e.k] = IF e.alias THEN orig[e.k] ELSE e.v

C4_Witness ==
    /\ pc = "fwd"
    /\ args.param_bits < 32
    /\ \E k \in DOMAIN params : params[k] # orig[k]
    /\ \E k \in DOMAIN params : params[k] = orig[k]

\* C5: the scheme dispatch is reached only with one of the four method names;
\* every quantized entry carries the scheme named by the configured method and
\* its class bit-width, and under the linear method its scale factor is
\* bits - 1 - integer_bits, integer_bits being the range estimate of the
\* entry's own tensor at the configured overflow rate.
C5_SchemeAndScale ==
    /\ pc = "loop" => args.quant_method \in {"linear", "minmax", "log", "tanh"}
    /\ \A i \in 1..Len(state_dict_quant) :
          LET e == state_dict_quant[i] IN
          ~e.alias =>
              /\ e.v.op = args.quant_method
              /\ e.v.bits = ClassBits(e.k)
              /\ e.v.data = orig[e.k].data
              /\ args.quant_method = "linear" =>
                    e.v.sf = ClassBits(e.k) - 1
                             - IntegralPart(orig[e.k].data, args.overflow_rate)

C5_Witness ==
    /\ pc = "fwd"
    /\ args.quant_method = "linear"
    /\ args.overflow_rate = 0
    /\ \E i \in 1..Len(state_dict_quant) :
          /\ ~state_dict_quant[i].alias
          /\ state_dict_quant[i].v.sf < state_dict_quant[i].v.bits - 1

\* C6: a wrapped unit starts with counter = n_sample; each forward call while
\* the counter is positive takes exactly one off it, so the unit is calibrating
\* for exactly its first n_sample calls and frozen afterwards; a frozen unit
\* stays frozen and keeps its estimate, and calls made while frozen on the
\* same output tensor give the same result.
C6_CounterFollowsCalls ==
    wrapped =>
        \A u \in Units :
            /\ counter[u] = Max(args.n_sample - calls[u], 0)
            /\ updates[u] = args.n_sample - counter[u]
            /\ (counter[u] > 0) <=> (calls[u] < args.n_sample)
            /\ \A p, q \in frozenOut[u] : p[1] = q[1] => p[2] = q[2]

C6_FrozenStays ==
    \A u \in Units :
        (wrapped /\ counter[u] = 0) =>
            /\ wrapped' /\ counter'[u] = 0
            /\ est'[u] = est[u]
            /\ updates'[u] = updates[u]

C6_CalibrateThenFreeze == []C6_CounterFollowsCalls /\ [][C6_FrozenStays]_vars

C6_Witness ==
    \E u \in Units :
        /\ wrapped /\ counter[u] = 0
        /\ args.n_sample >= 2
        /\ est[u] > DefaultEstimate
        /\ calls[u] >= args.n_sample + 2
        /\ Cardinality(frozenOut[u]) = 1

\* C7: a run with a configuration error (unknown method, a bit-width <= 0,
\* an overflow rate outside [0,1]) never gets as far as loading the model.
C7_ConfigErrorsFailFast == ConfigError(args) => ~loaded

\* C8: with n_sample = 0 every unit of the wrapped model is frozen at once
\* with the default estimate, no unit ever makes a calibration update, the
\* wrapper flags the budget with a warning, and the run does not raise in the
\* calibration call or the final evaluation.
C8_ZeroBudgetFrozenAtOnce ==
    (args.n_sample = 0 /\ wrapped) =>
        /\ \A u \in Units :
              counter[u] = 0 /\ est[u] = DefaultEstimate /\ updates[u] = 0
        /\ warned
        /\ args.fwd_bits >= 1 => pc # "failed"

C8_Witness ==
    /\ args.n_sample = 0
    /\ pc = "done"
    /\ wrapped
    /\ warned
    /\ ev.made >= 1
    /\ \A u \in Units : calls[u] >= 2 /\ updates[u] = 0

\* C10: with fwd_bits < 32 and n_sample >= 1, if the calibration evaluation
\* made exactly as many forward calls as the limit it was given, the
\* calibration evaluation is over before the final one starts, every unit is
\* frozen from then on and every calibration update was made during
\* calibration; with fwd_bits >= 32 the model is not wrapped, there is no
\* calibration evaluation, and the final evaluation runs exactly once.
C10_CalibrationBeforeEvaluation ==
    /\ (args.fwd_bits < 32 /\ args.n_sample >= 1 /\ pc \in FinalStages
            /\ ev.made = ev.limit) =>
          /\ ev.calib = 1
          /\ ev.kind # "calib"
          /\ \A u \in Units :
                wrapped /\ counter[u] = 0 /\ updates[u] = ev.made
    /\ pc \in {"calib", "calib_run"} => ev.final = 0
    /\ args.fwd_bits >= 32 =>
          /\ ~wrapped
          /\ ev.calib = 0
          /\ ev.final <= 1
          /\ pc \in {"final_run", "report", "done"} => ev.final = 1

C10_Witness ==
    /\ pc = "done"
    /\ args.fwd_bits < 32
    /\ args.n_sample >= 2
    /\ ev.made = ev.limit
    /\ ev.final = 1
    /\ \A u \in Units : calls[u] > args.n_sample /\ frozenOut[u] # {}

====
